---- MODULE Spec2Model ----
(***************************************************************************)
(* Model of src/src/utils/search.ts of bd-address-pro: the similarity      *)
(* scorer, the field matcher, the ranked search, quickSearch and           *)
(* autocomplete.                                                           *)
(*                                                                         *)
(* A string is a sequence of UTF-16 code units, each unit written as a     *)
(* one-token TLA+ string.  A score is an exact rational <<num, den>> with  *)
(* den > 0, compared by cross multiplication (the code's IEEE doubles are  *)
(* read as the real numbers they approximate).                             *)
(***************************************************************************)
EXTENDS Integers, Sequences, FiniteSets, TLC

\* ------------------------------------------------------------------------
\* Bounds of the model
\* ------------------------------------------------------------------------
\* longest enumerated string handed to the scorer
MaxLen == 3

\* code units of the enumerated strings: a cased pair and one more letter
Alphabet == {"a", "A", "b"}

\* ------------------------------------------------------------------------
\* Strings
\* ------------------------------------------------------------------------
Min2(x, y) == IF x <= y THEN x ELSE y
Max2(x, y) == IF x >= y THEN x ELSE y

\* String.prototype.toLowerCase on one code unit; U+0130 lowers to the
\* two units U+0069 U+0307, so lowering can change a string's length.
lowerUnit(ch) ==
  CASE ch = "A" -> <<"a">>
    [] ch = "B" -> <<"b">>
    [] ch = "D" -> <<"d">>
    [] ch = "K" -> <<"k">>
    [] ch = "S" -> <<"s">>
    [] ch = "X" -> <<"x">>
    [] ch = "U+0130" -> <<"i", "U+0307">>
    [] OTHER -> <<ch>>

RECURSIVE toLowerCase(_)
toLowerCase(s) ==
  IF s = <<>> THEN <<>> ELSE lowerUnit(Head(s)) \o toLowerCase(Tail(s))

WhiteSpace == {" "}

RECURSIVE trimStart(_)
trimStart(s) ==
  IF s # <<>> /\ Head(s) \in WhiteSpace THEN trimStart(Tail(s)) ELSE s

RECURSIVE trimEnd(_)
trimEnd(s) ==
  IF s # <<>> /\ s[Len(s)] \in WhiteSpace
  THEN trimEnd(SubSeq(s, 1, Len(s) - 1)) ELSE s

\* a trim that leaves the trailing white space
trim_StartOnly(s) == trimStart(s)

\* String.prototype.trim
trim(s) == trimEnd(trimStart(s))

\* String.prototype.startsWith
startsWith(t, q) == Len(q) <= Len(t) /\ SubSeq(t, 1, Len(q)) = q

\* String.prototype.includes
includes(t, q) ==
  \E i \in 0..(Len(t) - Len(q)) : SubSeq(t, i + 1, i + Len(q)) = q

\* ------------------------------------------------------------------------
\* levenshteinDistance (search.ts 58-97)
\* ------------------------------------------------------------------------
Min3(x, y, z) == Min2(x, Min2(y, z))

\* a cell whose substitution costs 2: still symmetric, no longer minimal
cellValue_SubstitutionTwo(same, diag, up, left) ==
  IF same THEN diag ELSE Min3(diag + 2, up + 1, left + 1)

\* a cell that forgets the insertion term
cellValue_NoInsertion(same, diag, up, left) ==
  IF same THEN diag ELSE Min2(diag + 1, up + 1)

\* one cell dp[i][j] from dp[i-1][j-1], dp[i-1][j], dp[i][j-1]
cellValue(same, diag, up, left) ==
  IF same THEN diag ELSE Min3(diag + 1, up + 1, left + 1)

\* row i of dp, given row i-1; a row is the sequence dp[i][0..n], so
\* dp[i][j] sits at index j+1.  row holds the cells filled so far.
RECURSIVE fillRow(_, _, _, _, _)
fillRow(str1, str2, i, prevRow, row) ==
  LET j == Len(row) IN
  IF j > Len(str2) THEN row
  ELSE fillRow(str1, str2, i, prevRow,
         Append(row, cellValue(str1[i] = str2[j],
                               prevRow[j], prevRow[j + 1], row[j])))

RECURSIVE fillMatrix(_, _, _, _)
fillMatrix(str1, str2, i, prevRow) ==
  IF i > Len(str1) THEN prevRow
  ELSE fillMatrix(str1, str2, i + 1,
                  fillRow(str1, str2, i, prevRow, <<i>>))

levenshteinDistance(str1, str2) ==
  LET m == Len(str1)
      n == Len(str2)
  IN  IF m = 0 THEN n
      ELSE IF n = 0 THEN m
      ELSE fillMatrix(str1, str2, 1, [j \in 1..(n + 1) |-> j - 1])[n + 1]

\* ------------------------------------------------------------------------
\* Scores
\* ------------------------------------------------------------------------
Lt(s1, s2) == s1[1] * s2[2] < s2[1] * s1[2]
Le(s1, s2) == s1[1] * s2[2] <= s2[1] * s1[2]
Eq(s1, s2) == s1[1] * s2[2] = s2[1] * s1[2]
Gt(s1, s2) == Lt(s2, s1)
Ge(s1, s2) == Le(s2, s1)

Zero == <<0, 1>>
One  == <<1, 1>>

\* ------------------------------------------------------------------------
\* calculateSimilarity (search.ts 102-123)
\* ------------------------------------------------------------------------
\* a folding that ignores the flag and never lowers
foldCase_Never(s, caseSensitive) == s

\* caseSensitive ? s : s.toLowerCase()
foldCase(s, caseSensitive) == IF caseSensitive THEN s ELSE toLowerCase(s)

\* the ratio taken the wrong way round
containsScore_Swapped(q, t) == <<4 * Len(q) + Len(t), 5 * Len(q)>>

\* the ratio weighted 0.1 instead of 0.2
containsScore_TenthWeight(q, t) == <<8 * Len(t) + Len(q), 10 * Len(t)>>

\* 0.8 + (q.length / t.length) * 0.2 = (4*|t| + |q|) / (5*|t|)
containsScore(q, t) == <<4 * Len(t) + Len(q), 5 * Len(t)>>

\* Math.max(0, 1 - distance / maxLen)
levenshteinScore(q, t) ==
  LET distance == levenshteinDistance(q, t)
      maxLen == Max2(Len(q), Len(t))
  IN  IF maxLen - distance < 0 THEN Zero ELSE <<maxLen - distance, maxLen>>

\* the prefix test moved in front of the containment test
similarityRule_PrefixFirst(q, t) ==
  IF q = t THEN "exact"
  ELSE IF startsWith(t, q) THEN "prefix"
  ELSE IF includes(t, q) THEN "contains"
  ELSE "levenshtein"

\* which return statement of calculateSimilarity is taken, on folded strings
similarityRule(q, t) ==
  IF q = t THEN "exact"
  ELSE IF includes(t, q) THEN "contains"
  ELSE IF startsWith(t, q) THEN "prefix"
  ELSE "levenshtein"

calculateSimilarity(query, target, caseSensitive) ==
  LET q == foldCase(query, caseSensitive)
      t == foldCase(target, caseSensitive)
      rule == similarityRule(q, t)
  IN  CASE rule = "exact" -> One
        [] rule = "contains" -> containsScore(q, t)
        [] rule = "prefix" -> <<9, 10>>
        [] rule = "levenshtein" -> levenshteinScore(q, t)

\* ------------------------------------------------------------------------
\* The catalog (search.ts 17-23): a few entities of every category, with
\* the names the documentation uses
\* ------------------------------------------------------------------------
Str_Dhaka   == <<"D", "h", "a", "k", "a">>
Str_dhaka   == <<"d", "h", "a", "k", "a">>
Str_Sylhet  == <<"S", "y", "l", "h", "e", "t">>
Str_sylhet  == <<"s", "y", "l", "h", "e", "t">>
Str_Bogura  == <<"B", "o", "g", "u", "r", "a">>
Str_bogura  == <<"b", "o", "g", "u", "r", "a">>
Str_Dhamrai == <<"D", "h", "a", "m", "r", "a", "i">>
Str_dhamrai == <<"d", "h", "a", "m", "r", "a", "i">>
Str_Khulna  == <<"K", "h", "u", "l", "n", "a">>
Str_khulna  == <<"k", "h", "u", "l", "n", "a">>
Str_Savar   == <<"S", "a", "v", "a", "r">>
Str_savar   == <<"s", "a", "v", "a", "r">>

Entity(id, name, bnName, slug) ==
  [id |-> id, name |-> name, bnName |-> bnName, slug |-> slug]

\* the second division has a secondary name in Latin units that starts with
\* "dha": an entity that a query can match on its secondary name only
divisionsData ==
  << Entity(1, Str_Dhaka, <<"X", "X", "X", "X">>, Str_dhaka),
     Entity(6, Str_Sylhet, <<"d", "h", "a", "U+09BE">>, Str_sylhet),
     Entity(4, Str_Khulna, <<"U+0996", "U+09C1">>, Str_khulna) >>

districtsData ==
  << Entity(18, Str_Dhaka, <<"X", "X", "X", "X">>, Str_dhaka),
     Entity(24, Str_Bogura, <<"U+09AC", "U+0997">>, Str_bogura),
     Entity(60, Str_Sylhet, <<"U+09B8", "U+09B2">>, Str_sylhet) >>

upazilasData ==
  << Entity(150, Str_Dhamrai, <<"U+09A7", "U+09BE">>, Str_dhamrai),
     Entity(151, Str_Savar, <<"U+09B8", "U+09AD">>, Str_savar) >>

TheCatalog ==
  [divisions |-> divisionsData, districts |-> districtsData,
   upazilas |-> upazilasData]

AllItemsSeq == divisionsData \o districtsData \o upazilasData

\* ------------------------------------------------------------------------
\* The queries handed to the exported operations
\* ------------------------------------------------------------------------
Str_Dha   == <<"D", "h", "a">>
Str_Dahka == <<"D", "a", "h", "k", "a">>
Str_XX    == <<"X", "X">>

QuerySeq ==
  << <<>>, <<" ">>, <<" ", " ">>, <<" ", "D", "h", "a", " ">>, Str_Dhaka,
     Str_dhaka, Str_Dha, Str_Dahka, Str_bogura, Str_savar, Str_sylhet,
     Str_XX >>

\* ------------------------------------------------------------------------
\* SearchOptions (search.ts 28-53)
\* ------------------------------------------------------------------------
defaultSearchOptions ==
  [includeEnglish |-> TRUE, includeBengali |-> TRUE, includeSlug |-> TRUE,
   limit |-> 10, threshold |-> <<3, 10>>, caseSensitive |-> FALSE,
   types |-> <<"division", "district", "upazila">>]

\* the object spread { ...base, ...over }: over's keys win
spread(base, over) ==
  [k \in (DOMAIN base) \cup (DOMAIN over) |->
     IF k \in DOMAIN over THEN over[k] ELSE base[k]]

\* Array.prototype.includes on opts.types
typesInclude(types, type) == \E i \in DOMAIN types : types[i] = type

\* ------------------------------------------------------------------------
\* searchInItem (search.ts 128-164)
\* ------------------------------------------------------------------------
Throw == [kind |-> "throw", error |-> "TypeError"]
Null == [kind |-> "null"]
Return(v) == [kind |-> "return", value |-> v]

\* calculateSimilarity tabulated once over the trimmed queries and the text
\* fields of the catalog: entry n is <<query, field value, caseSensitive>>
FieldSeq == <<"name", "bnName", "slug">>

MemoSize == Len(QuerySeq) * Len(AllItemsSeq) * Len(FieldSeq) * 2

MemoKey(n) ==
  LET perQuery == Len(AllItemsSeq) * Len(FieldSeq) * 2
      r == (n - 1) % perQuery
      item == AllItemsSeq[(r \div (Len(FieldSeq) * 2)) + 1]
      field == FieldSeq[((r \div 2) % Len(FieldSeq)) + 1]
  IN  <<trim(QuerySeq[((n - 1) \div perQuery) + 1]), item[field], r % 2 = 0>>

RECURSIVE Tabulate(_, _)
Tabulate(lo, hi) ==
  IF lo = hi
  THEN LET k == MemoKey(lo) IN k :> calculateSimilarity(k[1], k[2], k[3])
  ELSE LET mid == (lo + hi) \div 2
       IN  Tabulate(lo, mid) @@ Tabulate(mid + 1, hi)

SimilarityMemo == Tabulate(1, MemoSize)

\* The state: the module-level catalog and default options, the table of
\* calculateSimilarity's values (a function of its arguments only, filled
\* once and never changed), whether a call has been made, and the current
\* call with its outcome.  Calls are synchronous: one runs to completion
\* before the next starts.
VARIABLES catalog, defaults, similarityTable, called, op, args, ret

\* calculateSimilarity(query, target, caseSensitive), read from the table
\* where it holds the triple
similarityOf(query, target, caseSensitive) ==
  IF <<query, target, caseSensitive>> \in DOMAIN similarityTable
  THEN similarityTable[<<query, target, caseSensitive>>]
  ELSE calculateSimilarity(query, target, caseSensitive)

scoreEntry(item, field, query, options) ==
  [score |-> similarityOf(query, item[field], options.caseSensitive),
   field |-> field]

\* the slug scored and pushed first
fieldsOf_SlugFirst(options) ==
  (IF options.includeSlug THEN <<"slug">> ELSE <<>>)
  \o (IF options.includeEnglish THEN <<"name">> ELSE <<>>)
  \o (IF options.includeBengali THEN <<"bnName">> ELSE <<>>)

\* the fields the three conditional pushes score, in push order
fieldsOf(options) ==
  (IF options.includeEnglish THEN <<"name">> ELSE <<>>)
  \o (IF options.includeBengali THEN <<"bnName">> ELSE <<>>)
  \o (IF options.includeSlug THEN <<"slug">> ELSE <<>>)

RECURSIVE scoreFields(_, _, _, _)
scoreFields(fields, item, query, options) ==
  IF fields = <<>> THEN <<>>
  ELSE <<scoreEntry(item, Head(fields), query, options)>>
       \o scoreFields(Tail(fields), item, query, options)

\* the scores array after the pushes
scoresOf(item, query, options) ==
  scoreFields(fieldsOf(options), item, query, options)

\* a callback that lets the later entry win a tie
pickBest_LastOnTie(best, current) ==
  IF Ge(current.score, best.score) THEN current ELSE best

\* the reduce callback: current.score > best.score ? current : best
pickBest(best, current) ==
  IF Gt(current.score, best.score) THEN current ELSE best

\* scores.reduce(callback) without an initial value, on a non-empty array
RECURSIVE reduceFrom(_, _, _)
reduceFrom(scores, i, best) ==
  IF i > Len(scores) THEN best
  ELSE reduceFrom(scores, i + 1, pickBest(best, scores[i]))

\* bestMatch.score >= options.threshold
passesThreshold(score, threshold) == Ge(score, threshold)

\* options is a Required<SearchOptions>; reduce of an empty array without
\* an initial value throws a TypeError
searchInItem(item, query, options) ==
  IF Len(fieldsOf(options)) = 0 THEN Throw
  ELSE LET scores == scoresOf(item, query, options)
           bestMatch == reduceFrom(scores, 2, scores[1]) IN
       IF passesThreshold(bestMatch.score, options.threshold)
       THEN [kind |-> "match", item |-> item, score |-> bestMatch.score,
             matchedField |-> bestMatch.field]
       ELSE Null

\* ------------------------------------------------------------------------
\* search (search.ts 169-220)
\* ------------------------------------------------------------------------
SearchResult(r) ==
  [item |-> r.item, score |-> r.score, matchedField |-> r.matchedField]

\* an insertion that puts r in front of the entries it ties with
RECURSIVE insertByScore_Unstable(_, _)
insertByScore_Unstable(sorted, r) ==
  IF sorted = <<>> THEN <<r>>
  ELSE IF Gt(Head(sorted).score, r.score)
       THEN <<Head(sorted)>> \o insertByScore_Unstable(Tail(sorted), r)
       ELSE <<r>> \o sorted

\* place r behind every entry whose score is not smaller: what a stable
\* sort with the comparator (a, b) => b.score - a.score does to it
RECURSIVE insertByScore(_, _)
insertByScore(sorted, r) ==
  IF sorted = <<>> THEN <<r>>
  ELSE IF Ge(Head(sorted).score, r.score)
       THEN <<Head(sorted)>> \o insertByScore(Tail(sorted), r)
       ELSE <<r>> \o sorted

\* results.sort((a, b) => b.score - a.score), stable since ES2019
RECURSIVE sortByScore(_)
sortByScore(results) ==
  IF results = <<>> THEN <<>>
  ELSE insertByScore(sortByScore(SubSeq(results, 1, Len(results) - 1)),
                     results[Len(results)])

\* a slice that keeps one element too many
slice0_OffByOne(arr, end) ==
  LET len == Len(arr)
      final == IF end < 0 THEN Max2(len + end, 0) ELSE Min2(end + 1, len)
  IN  SubSeq(arr, 1, final)

\* a slice that ignores its end
slice0_Unbounded(arr, end) == arr

\* Array.prototype.slice(0, end) for an integer end
slice0(arr, end) ==
  LET len == Len(arr)
      final == IF end < 0 THEN Max2(len + end, 0) ELSE Min2(end, len)
  IN  SubSeq(arr, 1, final)

\* the matches of one category, in catalog order (the for loop's pushes)
RECURSIVE collectMatches(_, _, _, _)
collectMatches(items, i, query, opts) ==
  IF i > Len(items) THEN <<>>
  ELSE LET r == searchInItem(items[i], query, opts) IN
       (IF r.kind = "match" THEN <<SearchResult(r)>> ELSE <<>>)
       \o collectMatches(items, i + 1, query, opts)

\* does scanning the category raise
categoryThrows(items, query, opts) ==
  \E i \in DOMAIN items : searchInItem(items[i], query, opts).kind = "throw"

\* a block that runs whatever opts.types holds
searchCategory_IgnoresTypes(items, type, query, opts) ==
  slice0(sortByScore(collectMatches(items, 1, query, opts)), opts.limit)

\* one "if (opts.types.includes(type)) { ... }" block
searchCategory(items, type, query, opts) ==
  IF typesInclude(opts.types, type)
  THEN slice0(sortByScore(collectMatches(items, 1, query, opts)), opts.limit)
  ELSE <<>>

EmptyResult == [divisions |-> <<>>, districts |-> <<>>, upazilas |-> <<>>]

\* a test that forgets the trim
isBlank_EmptyOnly(query) == query = <<>>

\* !query || query.trim().length === 0
isBlank(query) == query = <<>> \/ Len(trim(query)) = 0

search(cat, query, options) ==
  LET opts == spread(defaults, options)
      trimmedQuery == trim(query)
  IN  IF isBlank(query) THEN Return(EmptyResult)
      ELSE IF \/ /\ typesInclude(opts.types, "division")
                 /\ categoryThrows(cat.divisions, trimmedQuery, opts)
              \/ /\ typesInclude(opts.types, "district")
                 /\ categoryThrows(cat.districts, trimmedQuery, opts)
              \/ /\ typesInclude(opts.types, "upazila")
                 /\ categoryThrows(cat.upazilas, trimmedQuery, opts)
           THEN Throw
      ELSE Return(
        [divisions |->
           searchCategory(cat.divisions, "division", trimmedQuery, opts),
         districts |->
           searchCategory(cat.districts, "district", trimmedQuery, opts),
         upazilas |->
           searchCategory(cat.upazilas, "upazila", trimmedQuery, opts)])

\* ------------------------------------------------------------------------
\* quickSearch (search.ts 225-239)
\* ------------------------------------------------------------------------
\* a flattening that puts the categories in reverse order
quickSearch_UpazilasFirst(cat, query, options) ==
  LET result == search(cat, query, spread(options, [limit |-> 1])) IN
  IF result.kind = "throw" THEN Throw
  ELSE LET allResults == result.value.upazilas \o result.value.districts
                         \o result.value.divisions
       IN  IF Len(allResults) = 0 THEN Return(Null)
           ELSE Return([kind |-> "item",
                        item |-> sortByScore(allResults)[1].item])

quickSearch(cat, query, options) ==
  LET result == search(cat, query, spread(options, [limit |-> 1])) IN
  IF result.kind = "throw" THEN Throw
  ELSE LET allResults == result.value.divisions \o result.value.districts
                         \o result.value.upazilas
       IN  IF Len(allResults) = 0 THEN Return(Null)
           ELSE Return([kind |-> "item",
                        item |-> sortByScore(allResults)[1].item])

\* ------------------------------------------------------------------------
\* autocomplete (search.ts 277-319)
\* ------------------------------------------------------------------------
\* checkStartsWith: the entries one entity pushes (none or one)
checkStartsWith(opts, q, name, bnName, type, item) ==
  LET nameToCheck == IF opts.caseSensitive THEN name ELSE toLowerCase(name)
      bnNameToCheck == bnName
      entry(p) == [name |-> name, bnName |-> bnName, type |-> type,
                   item |-> item, priority |-> p]
  IN  IF opts.includeEnglish /\ startsWith(nameToCheck, q) THEN <<entry(1)>>
      ELSE IF opts.includeBengali /\ startsWith(bnNameToCheck, q)
           THEN <<entry(2)>>
      ELSE <<>>

RECURSIVE checkAll(_, _, _, _, _)
checkAll(opts, q, items, i, type) ==
  IF i > Len(items) THEN <<>>
  ELSE checkStartsWith(opts, q, items[i].name, items[i].bnName, type, items[i])
       \o checkAll(opts, q, items, i + 1, type)

\* the results left in push order
sortByPriority_None(results) == results

\* results.sort((a, b) => a.priority - b.priority), stable
sortByPriority(results) ==
  SelectSeq(results, LAMBDA r : r.priority = 1)
  \o SelectSeq(results, LAMBDA r : r.priority = 2)

stripPriority(r) ==
  [name |-> r.name, bnName |-> r.bnName, type |-> r.type, item |-> r.item]

autocomplete(cat, query, options) ==
  IF isBlank(query) THEN Return(<<>>)
  ELSE
    LET opts == spread(defaults, options)
        q == IF opts.caseSensitive THEN trim(query)
             ELSE toLowerCase(trim(query))
        results ==
          (IF typesInclude(opts.types, "division")
             THEN checkAll(opts, q, cat.divisions, 1, "division") ELSE <<>>)
          \o (IF typesInclude(opts.types, "district")
             THEN checkAll(opts, q, cat.districts, 1, "district") ELSE <<>>)
          \o (IF typesInclude(opts.types, "upazila")
             THEN checkAll(opts, q, cat.upazilas, 1, "upazila") ELSE <<>>)
        cut == slice0(sortByPriority(results), opts.limit)
    IN  Return([i \in DOMAIN cut |-> stripPriority(cut[i])])

\* ------------------------------------------------------------------------
\* searchDistricts (search.ts 255-261)
\* ------------------------------------------------------------------------
searchDistricts(cat, query, options) ==
  LET result == search(cat, query, spread(options, [types |-> <<"district">>]))
  IN  IF result.kind = "throw" THEN Throw ELSE Return(result.value.districts)

\* ------------------------------------------------------------------------
\* searchDivisions (search.ts 244-250), searchUpazilas (search.ts 266-272)
\* ------------------------------------------------------------------------
searchDivisions(cat, query, options) ==
  LET result == search(cat, query, spread(options, [types |-> <<"division">>]))
  IN  IF result.kind = "throw" THEN Throw ELSE Return(result.value.divisions)

searchUpazilas(cat, query, options) ==
  LET result == search(cat, query, spread(options, [types |-> <<"upazila">>]))
  IN  IF result.kind = "throw" THEN Throw ELSE Return(result.value.upazilas)

\* ------------------------------------------------------------------------
\* searchBengali (search.ts 331-338), searchEnglish (search.ts 343-350)
\* ------------------------------------------------------------------------
BengaliOnly ==
  [includeEnglish |-> FALSE, includeBengali |-> TRUE, includeSlug |-> FALSE]

EnglishOnly ==
  [includeEnglish |-> TRUE, includeBengali |-> FALSE, includeSlug |-> FALSE]

searchBengali(cat, query, options) ==
  search(cat, query, spread(options, BengaliOnly))

\* a preset whose flags the caller's options override
searchEnglish_CallerWins(cat, query, options) ==
  search(cat, query, spread(EnglishOnly, options))

searchEnglish(cat, query, options) ==
  search(cat, query, spread(options, EnglishOnly))

\* ------------------------------------------------------------------------
\* fuzzySearch (search.ts 324-326)
\* ------------------------------------------------------------------------
fuzzyThreshold == <<4, 10>>

fuzzySearch(cat, query, options) ==
  search(cat, query, spread(options, [threshold |-> fuzzyThreshold]))

\* ------------------------------------------------------------------------
\* Inputs of the calls
\* ------------------------------------------------------------------------
Strs(n) == UNION {[1..k -> Alphabet] : k \in 0..n}

\* strings with a unit whose lower case is two units long
Str_I     == <<"U+0130">>
Str_aI    == <<"a", "U+0130">>

\* strings with U+1F600, which UTF-16 stores as the surrogate pair
\* U+D83D U+DE00
Str_Grin  == <<"U+D83D", "U+DE00">>
Str_GrinB == <<"U+D83D", "U+DE00", "b">>

ExampleStrings ==
  {Str_Dhaka, Str_dhaka, Str_Dha, Str_Dahka, Str_I, Str_aI, Str_Grin,
   Str_GrinB}

ScorerStrings == Strs(MaxLen) \cup ExampleStrings

Queries == {QuerySeq[i] : i \in DOMAIN QuerySeq}

NoOptions == [k \in {} |-> TRUE]

FlagOptions ==
  {NoOptions} \cup
  ({[includeEnglish |-> e, includeBengali |-> b, includeSlug |-> s] :
      e \in BOOLEAN, b \in BOOLEAN, s \in BOOLEAN}
   \ {[includeEnglish |-> TRUE, includeBengali |-> TRUE, includeSlug |-> TRUE]})

Thresholds == {<<-1, 2>>, <<0, 1>>, <<9, 10>>, <<1, 1>>, <<2, 1>>}

ThresholdOptions == {NoOptions} \cup {[threshold |-> t] : t \in Thresholds}

LimitOptions ==
  {NoOptions, [limit |-> -1], [limit |-> 0], [limit |-> 1], [limit |-> 2]}

CaseOptions == {NoOptions, [caseSensitive |-> TRUE]}

TypesOptions ==
  {NoOptions, [types |-> <<"district">>], [types |-> <<"village">>],
   [types |-> <<"upazila", "division">>]}

Options(flags, thresholds, limits, cases, types) ==
  {spread(spread(spread(spread(f, t), l), c), y) :
     f \in flags, t \in thresholds, l \in limits, c \in cases, y \in types}

\* the options objects a caller passes: any subset of the keys
OptionsInputs ==
  Options(FlagOptions, ThresholdOptions, LimitOptions, CaseOptions,
          TypesOptions)

\* quickSearch overrides the caller's limit
QuickSearchOptionsInputs ==
  Options(FlagOptions, ThresholdOptions, {NoOptions, [limit |-> -1]},
          CaseOptions, TypesOptions)

\* fuzzySearch overrides the caller's threshold
FuzzySearchOptionsInputs ==
  Options(FlagOptions, {NoOptions, [threshold |-> <<0, 1>>]}, LimitOptions,
          CaseOptions, TypesOptions)

\* what a caller hands the other presets, the keys they override included
PresetOptionsInputs ==
  Options(FlagOptions, {NoOptions, [threshold |-> <<0, 1>>]},
          {NoOptions, [limit |-> 1]}, CaseOptions,
          {NoOptions, [types |-> <<"district">>]})

\* autocomplete reads neither threshold nor includeSlug
AutocompleteOptionsInputs ==
  Options(FlagOptions, {NoOptions}, LimitOptions, CaseOptions, TypesOptions)

\* the category presets take no types (Omit<SearchOptions, 'types'>)
CategoryOptionsInputs ==
  Options(FlagOptions, ThresholdOptions, LimitOptions, CaseOptions,
          {NoOptions})

\* searchInItem is handed the merged options and the trimmed, non-blank query
RequiredOptionsInputs ==
  {spread(defaultSearchOptions, o) :
     o \in Options(FlagOptions, ThresholdOptions, {NoOptions}, CaseOptions,
                   {NoOptions})}

TrimmedQueries == {trim(q) : q \in {x \in Queries : ~isBlank(x)}}

AllItems == {AllItemsSeq[i] : i \in DOMAIN AllItemsSeq}

\* ------------------------------------------------------------------------
\* The initial state and the calls
\* ------------------------------------------------------------------------
vars == <<catalog, defaults, similarityTable, called, op, args, ret>>

Init ==
  /\ catalog = TheCatalog
  /\ defaults = defaultSearchOptions
  /\ similarityTable = SimilarityMemo
  /\ called = FALSE
  /\ op = "none"
  /\ args = NoOptions
  /\ ret = Null

RECURSIVE Reverse(_)
Reverse(seq) ==
  IF seq = <<>> THEN <<>> ELSE Append(Reverse(Tail(seq)), Head(seq))

\* a call that reorders the catalog's own division array
ReadOnly_ReordersCatalog ==
  /\ catalog' = [catalog EXCEPT !.divisions = Reverse(catalog.divisions)]
  /\ UNCHANGED <<defaults, similarityTable>>

\* what a call writes outside its own locals: nothing.  Every array the
\* functions push to, sort and slice is created by the call itself; the
\* catalog arrays and defaultSearchOptions are only read.
ReadOnly == UNCHANGED <<catalog, defaults, similarityTable>>

CallLevenshteinDistance ==
  /\ op = "none"
  /\ \E a \in ScorerStrings, b \in ScorerStrings :
    /\ op' = "levenshteinDistance"
    /\ args' = [str1 |-> a, str2 |-> b]
    /\ ret' = Return(levenshteinDistance(a, b))
    /\ called' = TRUE
    /\ ReadOnly

CallCalculateSimilarity ==
  /\ op = "none"
  /\ \E q \in ScorerStrings, t \in ScorerStrings, cs \in BOOLEAN :
    /\ op' = "calculateSimilarity"
    /\ args' = [query |-> q, target |-> t, caseSensitive |-> cs]
    /\ ret' = [kind |-> "return",
               value |-> calculateSimilarity(q, t, cs),
               rule |-> similarityRule(foldCase(q, cs), foldCase(t, cs))]
    /\ called' = TRUE
    /\ ReadOnly

CallSearchInItem ==
  /\ op = "none"
  /\ \E item \in AllItems, q \in TrimmedQueries, o \in RequiredOptionsInputs :
    /\ op' = "searchInItem"
    /\ args' = [item |-> item, query |-> q, options |-> o]
    /\ ret' = searchInItem(item, q, o)
    /\ called' = TRUE
    /\ ReadOnly

CallSearch ==
  /\ op = "none"
  /\ \E q \in Queries, o \in OptionsInputs :
    /\ op' = "search"
    /\ args' = [query |-> q, options |-> o]
    /\ ret' = search(catalog, q, o)
    /\ called' = TRUE
    /\ ReadOnly

CallQuickSearch ==
  /\ op = "none"
  /\ \E q \in Queries, o \in QuickSearchOptionsInputs :
    /\ op' = "quickSearch"
    /\ args' = [query |-> q, options |-> o]
    /\ ret' = quickSearch(catalog, q, o)
    /\ called' = TRUE
    /\ ReadOnly

CallSearchDistricts ==
  /\ op = "none"
  /\ \E q \in Queries, o \in CategoryOptionsInputs :
    /\ op' = "searchDistricts"
    /\ args' = [query |-> q, options |-> o]
    /\ ret' = searchDistricts(catalog, q, o)
    /\ called' = TRUE
    /\ ReadOnly

CallFuzzySearch ==
  /\ op = "none"
  /\ \E q \in Queries, o \in FuzzySearchOptionsInputs :
    /\ op' = "fuzzySearch"
    /\ args' = [query |-> q, options |-> o]
    /\ ret' = fuzzySearch(catalog, q, o)
    /\ called' = TRUE
    /\ ReadOnly

CallSearchDivisions ==
  /\ op = "none"
  /\ \E q \in Queries, o \in PresetOptionsInputs :
    /\ op' = "searchDivisions"
    /\ args' = [query |-> q, options |-> o]
    /\ ret' = searchDivisions(catalog, q, o)
    /\ called' = TRUE
    /\ ReadOnly

CallSearchUpazilas ==
  /\ op = "none"
  /\ \E q \in Queries, o \in PresetOptionsInputs :
    /\ op' = "searchUpazilas"
    /\ args' = [query |-> q, options |-> o]
    /\ ret' = searchUpazilas(catalog, q, o)
    /\ called' = TRUE
    /\ ReadOnly

CallSearchBengali ==
  /\ op = "none"
  /\ \E q \in Queries, o \in PresetOptionsInputs :
    /\ op' = "searchBengali"
    /\ args' = [query |-> q, options |-> o]
    /\ ret' = searchBengali(catalog, q, o)
    /\ called' = TRUE
    /\ ReadOnly

CallSearchEnglish ==
  /\ op = "none"
  /\ \E q \in Queries, o \in PresetOptionsInputs :
    /\ op' = "searchEnglish"
    /\ args' = [query |-> q, options |-> o]
    /\ ret' = searchEnglish(catalog, q, o)
    /\ called' = TRUE
    /\ ReadOnly

CallAutocomplete ==
  /\ op = "none"
  /\ \E q \in Queries, o \in AutocompleteOptionsInputs :
    /\ op' = "autocomplete"
    /\ args' = [query |-> q, options |-> o]
    /\ ret' = autocomplete(catalog, q, o)
    /\ called' = TRUE
    /\ ReadOnly

\* the call has returned (or thrown) to its caller; the next call may start
Done ==
  /\ op # "none"
  /\ op' = "none"
  /\ args' = NoOptions
  /\ ret' = Null
  /\ UNCHANGED <<catalog, defaults, similarityTable, called>>

Next ==
  \/ Done
  \/ CallLevenshteinDistance
  \/ CallCalculateSimilarity
  \/ CallSearchInItem
  \/ CallSearchDistricts
  \/ CallSearchDivisions
  \/ CallSearchUpazilas
  \/ CallSearchBengali
  \/ CallSearchEnglish
  \/ CallAutocomplete
  \/ CallQuickSearch
  \/ CallFuzzySearch
  \/ CallSearch

Spec == Init /\ [][Next]_vars

\* ------------------------------------------------------------------------
\* Vocabulary of the properties
\* ------------------------------------------------------------------------
IsCall(name) == op = name

\* q and c are equal after the optional case folding
FoldedEqual(q, c, caseSensitive) ==
  IF caseSensitive THEN q = c ELSE toLowerCase(q) = toLowerCase(c)

\* the classic edit distance: the least number of single-unit insertions,
\* deletions and substitutions turning a into b
RECURSIVE EditDistance(_, _)
EditDistance(a, b) ==
  IF a = <<>> THEN Len(b)
  ELSE IF b = <<>> THEN Len(a)
  ELSE Min3(EditDistance(Tail(a), b) + 1,
            EditDistance(a, Tail(b)) + 1,
            EditDistance(Tail(a), Tail(b))
              + (IF Head(a) = Head(b) THEN 0 ELSE 1))

\* max(0, 1 - d / n) for n > 0
OneMinus(d, n) == IF n - d < 0 THEN Zero ELSE <<n - d, n>>

FieldOrder == <<"name", "bnName", "slug">>

FieldEnabled(options, f) ==
  CASE f = "name" -> options.includeEnglish
    [] f = "bnName" -> options.includeBengali
    [] f = "slug" -> options.includeSlug

FieldIndex(f) == CHOOSE i \in 1..3 : FieldOrder[i] = f

MergedOptions == spread(defaultSearchOptions, args.options)

CategoryLists(result) ==
  {result.divisions, result.districts, result.upazilas}

\* ------------------------------------------------------------------------
\* C1: search, quickSearch and autocomplete return a result for every
\* query and every options value and never throw.
\* ------------------------------------------------------------------------
C1_NeverThrows ==
  (IsCall("search") \/ IsCall("quickSearch") \/ IsCall("autocomplete"))
    => ret.kind = "return"

\* ------------------------------------------------------------------------
\* C2: every score calculateSimilarity returns lies in [0, 1].
\* ------------------------------------------------------------------------
C2_ScoreInUnitInterval ==
  IsCall("calculateSimilarity")
    => /\ ret.value[2] > 0
       /\ Ge(ret.value, Zero)
       /\ Le(ret.value, One)

\* both ends of the interval are returned, the lower one by the edit
\* distance rule
C2_Witness ==
  /\ IsCall("calculateSimilarity")
  /\ ret.rule = "levenshtein"
  /\ Eq(ret.value, Zero)

\* ------------------------------------------------------------------------
\* C3: calculateSimilarity returns 1.0 exactly when query and candidate
\* are equal after the optional case folding.
\* ------------------------------------------------------------------------
C3_OneIffEqual ==
  IsCall("calculateSimilarity")
    => (Eq(ret.value, One)
          <=> FoldedEqual(args.query, args.target, args.caseSensitive))

\* two strings that differ only by case score 1.0 when case is folded
C3_Witness ==
  /\ IsCall("calculateSimilarity")
  /\ ~args.caseSensitive
  /\ args.query # args.target
  /\ Len(args.query) > 1
  /\ Eq(ret.value, One)

\* ------------------------------------------------------------------------
\* C4 (as stated): for a non-empty query q and a candidate c that contains
\* q, calculateSimilarity(q, c, false) is 0.8 + 0.2*len(q)/len(c), a value
\* in the half-open interval [0.8, 1.0).
\* ------------------------------------------------------------------------
C4_ContainmentHalfOpen ==
  (/\ IsCall("calculateSimilarity")
   /\ ~args.caseSensitive
   /\ args.query # <<>>
   /\ includes(args.target, args.query))
    => /\ Eq(ret.value, <<4 * Len(args.target) + Len(args.query),
                          5 * Len(args.target)>>)
       /\ Ge(ret.value, <<8, 10>>)
       /\ Lt(ret.value, One)

\* C4 (amended): for a non-empty query q and a candidate c that contains q
\* after case folding, calculateSimilarity(q, c, false) is
\* 0.8 + 0.2*len(q)/len(c), the lengths taken after folding; the value lies
\* in [0.8, 1.0] and is 1.0 exactly when q and c are equal after folding.
C4_ContainmentClosed ==
  (/\ IsCall("calculateSimilarity")
   /\ ~args.caseSensitive
   /\ args.query # <<>>
   /\ includes(toLowerCase(args.target), toLowerCase(args.query)))
    => LET q == toLowerCase(args.query)
           c == toLowerCase(args.target)
       IN  /\ Eq(ret.value, <<4 * Len(c) + Len(q), 5 * Len(c)>>)
           /\ Ge(ret.value, <<8, 10>>)
           /\ Le(ret.value, One)
           /\ Eq(ret.value, One) <=> q = c

\* a proper containment in the middle of a candidate of another case
C4_Witness ==
  /\ IsCall("calculateSimilarity")
  /\ ~args.caseSensitive
  /\ args.query # <<>>
  /\ includes(toLowerCase(args.target), toLowerCase(args.query))
  /\ ~includes(args.target, args.query)
  /\ ~startsWith(toLowerCase(args.target), toLowerCase(args.query))
  /\ Lt(ret.value, One)

\* ------------------------------------------------------------------------
\* C5: a candidate that starts with the query without being equal to it is
\* scored by the containment formula (0.92 for "Dha" against "Dhaka"); the
\* prefix rule and its 0.9 never produce the result.
\* ------------------------------------------------------------------------
C5_PrefixScoredByContainment ==
  IsCall("calculateSimilarity")
    => LET q == foldCase(args.query, args.caseSensitive)
           t == foldCase(args.target, args.caseSensitive)
       IN  /\ ret.rule # "prefix"
           /\ (startsWith(t, q) /\ q # t)
                => /\ ret.rule = "contains"
                   /\ Eq(ret.value, <<4 * Len(t) + Len(q), 5 * Len(t)>>)
           /\ (args.query = Str_Dha /\ args.target = Str_Dhaka)
                => Eq(ret.value, <<92, 100>>)

C5_Witness ==
  /\ IsCall("calculateSimilarity")
  /\ args.query = Str_Dha
  /\ args.target = Str_Dhaka
  /\ ret.rule = "contains"
  /\ Eq(ret.value, <<92, 100>>)

\* ------------------------------------------------------------------------
\* C6: outside equality and containment the score is
\* max(0, 1 - D/max(len(q), len(c))) with D the classic edit distance, which
\* is what levenshteinDistance computes; D(x, "") = D("", x) = len(x);
\* "Dahka" against "Dhaka" has D = 2 and scores 0.6.
\* ------------------------------------------------------------------------
C6_EditDistanceScore ==
  /\ IsCall("levenshteinDistance")
       => /\ ret.value = EditDistance(args.str1, args.str2)
          /\ args.str2 = <<>> => ret.value = Len(args.str1)
          /\ args.str1 = <<>> => ret.value = Len(args.str2)
  /\ IsCall("calculateSimilarity")
       => LET q == foldCase(args.query, args.caseSensitive)
              t == foldCase(args.target, args.caseSensitive)
          IN  (q # t /\ ~includes(t, q))
                => Eq(ret.value,
                      OneMinus(EditDistance(q, t), Max2(Len(q), Len(t))))

C6_Witness ==
  /\ IsCall("calculateSimilarity")
  /\ args.query = Str_Dahka
  /\ args.target = Str_Dhaka
  /\ ret.rule = "levenshtein"
  /\ EditDistance(args.query, args.target) = 2
  /\ Eq(ret.value, <<6, 10>>)

\* ------------------------------------------------------------------------
\* C7: levenshteinDistance(a, b) = levenshteinDistance(b, a).
\* ------------------------------------------------------------------------
C7_Symmetric ==
  IsCall("levenshteinDistance")
    => ret.value = levenshteinDistance(args.str2, args.str1)

\* two different strings of different lengths, neither empty
C7_Witness ==
  /\ IsCall("levenshteinDistance")
  /\ Len(args.str1) > 0
  /\ Len(args.str2) > Len(args.str1)
  /\ ~includes(args.str2, args.str1)
  /\ ret.value > 0

\* the score searchInItem's call gives field f of its item
FieldScore(f) ==
  calculateSimilarity(args.query, args.item[f], args.options.caseSensitive)

EnabledFields(options) == {f \in {"name", "bnName", "slug"} : FieldEnabled(options, f)}

Entries(list) == {list[i] : i \in DOMAIN list}

\* ------------------------------------------------------------------------
\* C8: searchInItem reports the enabled field with the highest score and
\* that score; of several fields with the highest score it reports the one
\* evaluated first (name, then bnName, then slug).  Dhaka/XXXX/dhaka with
\* query "Dhaka" and default options: score 1.0 on name.
\* ------------------------------------------------------------------------
C8_BestFieldFirstOnTie ==
  (IsCall("searchInItem") /\ ret.kind = "match")
    => /\ ret.item = args.item
       /\ ret.matchedField \in EnabledFields(args.options)
       /\ Eq(ret.score, FieldScore(ret.matchedField))
       /\ \A f \in EnabledFields(args.options) :
            /\ Le(FieldScore(f), ret.score)
            /\ FieldIndex(f) < FieldIndex(ret.matchedField)
                 => Lt(FieldScore(f), ret.score)
       /\ (/\ args.item = divisionsData[1]
           /\ args.query = Str_Dhaka
           /\ args.options = defaultSearchOptions)
            => Eq(ret.score, One) /\ ret.matchedField = "name"

\* the example: name and slug tie at 1.0 and name is reported
C8_Witness ==
  /\ IsCall("searchInItem")
  /\ args.item = divisionsData[1]
  /\ args.query = Str_Dhaka
  /\ args.options = defaultSearchOptions
  /\ Eq(FieldScore("name"), FieldScore("slug"))
  /\ ret.kind = "match"
  /\ ret.matchedField = "name"
  /\ Eq(ret.score, One)

ThresholdExactWhenScored ==
  (IsCall("searchInItem") /\ EnabledFields(args.options) # {})
    => /\ ret.kind \in {"match", "null"}
       /\ ret.kind = "match"
            <=> \E f \in EnabledFields(args.options) :
                  Ge(FieldScore(f), args.options.threshold)

C10_ThresholdExact ==
  /\ IsCall("searchInItem")
       => /\ ret.kind \in {"match", "null"}
          /\ ret.kind = "match"
               <=> \E f \in EnabledFields(args.options) :
                     Ge(FieldScore(f), args.options.threshold)
          /\ ret.kind = "match" => Ge(ret.score, args.options.threshold)
  /\ (IsCall("search") /\ ~isBlank(args.query))
       => /\ ret.kind = "return"
          /\ \A list \in CategoryLists(ret.value) : \A e \in Entries(list) :
               Ge(e.score, MergedOptions.threshold)
          /\ Gt(MergedOptions.threshold, One) => ret.value = EmptyResult
          /\ (Le(MergedOptions.threshold, Zero) /\ MergedOptions.limit >= 0)
               => /\ typesInclude(MergedOptions.types, "division")
                       => Len(ret.value.divisions)
                            = Min2(Len(catalog.divisions), MergedOptions.limit)
                  /\ typesInclude(MergedOptions.types, "district")
                       => Len(ret.value.districts)
                            = Min2(Len(catalog.districts), MergedOptions.limit)
                  /\ typesInclude(MergedOptions.types, "upazila")
                       => Len(ret.value.upazilas)
                            = Min2(Len(catalog.upazilas), MergedOptions.limit)

\* ------------------------------------------------------------------------
\* Vocabulary of the properties on whole searches
\* ------------------------------------------------------------------------
AllWhitespace(q) == \A i \in DOMAIN q : q[i] \in WhiteSpace

Categories == {"division", "district", "upazila"}

CategoryOrder == <<"division", "district", "upazila">>

CategoryKey(type) ==
  CASE type = "division" -> "divisions"
    [] type = "district" -> "districts"
    [] type = "upazila" -> "upazilas"

CategoryIndex(type) == CHOOSE i \in 1..3 : CategoryOrder[i] = type

\* the position of an entity in its category's collection
IndexIn(items, it) == CHOOSE k \in DOMAIN items : items[k] = it

\* the entities of a collection whose best enabled-field score reaches the
\* threshold, by position
Matching(items, q, o) ==
  {i \in DOMAIN items :
     \E f \in EnabledFields(o) :
       Ge(similarityOf(q, items[i][f], o.caseSensitive), o.threshold)}

\* ------------------------------------------------------------------------
\* C11: for an empty or all-whitespace query search returns three empty
\* lists, autocomplete an empty sequence and quickSearch none, with any
\* options and without an error.
\* ------------------------------------------------------------------------
C11_BlankQueryEmpty ==
  ((IsCall("search") \/ IsCall("autocomplete") \/ IsCall("quickSearch"))
   /\ AllWhitespace(args.query))
    => /\ IsCall("search") => ret = Return(EmptyResult)
       /\ IsCall("autocomplete") => ret = Return(<<>>)
       /\ IsCall("quickSearch") => ret = Return(Null)

\* a query of two blanks, with every field switched off
C11_Witness ==
  /\ IsCall("quickSearch")
  /\ args.query = <<" ", " ">>
  /\ EnabledFields(MergedOptions) = {}
  /\ ret = Return(Null)

\* ------------------------------------------------------------------------
\* C12: every category list search returns is in non-increasing score
\* order, and entries of equal score are in catalog order, also when the
\* limit has cut the list.
\* ------------------------------------------------------------------------
SortedStable(list, items) ==
  \A i \in DOMAIN list : \A j \in DOMAIN list :
    i < j => /\ Ge(list[i].score, list[j].score)
             /\ Eq(list[i].score, list[j].score)
                  => IndexIn(items, list[i].item) < IndexIn(items, list[j].item)

C12_SortedStable ==
  (IsCall("search") /\ ret.kind = "return")
    => \A type \in Categories :
         SortedStable(ret.value[CategoryKey(type)], catalog[CategoryKey(type)])

\* a list of three matches cut to a better entry and the first of two tied
\* ones
C12_Witness ==
  /\ IsCall("search")
  /\ ret.kind = "return"
  /\ MergedOptions.limit = 2
  /\ Cardinality(Matching(catalog.districts, trim(args.query),
                          MergedOptions)) = 3
  /\ Len(ret.value.districts) = 2
  /\ Gt(ret.value.districts[1].score, ret.value.districts[2].score)
  /\ \E i \in DOMAIN catalog.districts :
       /\ i > IndexIn(catalog.districts, ret.value.districts[2].item)
       /\ \E f \in EnabledFields(MergedOptions) :
            Eq(similarityOf(trim(args.query), catalog.districts[i][f],
                            MergedOptions.caseSensitive),
               ret.value.districts[2].score)

\* ------------------------------------------------------------------------
\* C13: for a limit >= 0 every category list has at most limit entries, and
\* the cap is per category: a list has min(limit, matches of its category)
\* entries whatever the other categories hold.
\* ------------------------------------------------------------------------
C13_PerCategoryCap ==
  (IsCall("search") /\ ret.kind = "return" /\ ~AllWhitespace(args.query)
   /\ MergedOptions.limit >= 0)
    => \A type \in Categories :
         LET list == ret.value[CategoryKey(type)]
             items == catalog[CategoryKey(type)]
         IN  /\ Len(list) <= MergedOptions.limit
             /\ typesInclude(MergedOptions.types, type)
                  => Len(list) =
                       Min2(MergedOptions.limit,
                            Cardinality(Matching(items, trim(args.query),
                                                 MergedOptions)))

\* all three lists full: 3 * limit entries in total
C13_Witness ==
  /\ IsCall("search")
  /\ ret.kind = "return"
  /\ MergedOptions.limit = 2
  /\ Len(ret.value.divisions) = 2
  /\ Len(ret.value.districts) = 2
  /\ Len(ret.value.upazilas) = 2
  /\ Cardinality(Matching(catalog.divisions, trim(args.query),
                          MergedOptions)) > 2

\* ------------------------------------------------------------------------
\* C14: for every limit <= 0 search returns three empty lists and
\* autocomplete an empty sequence, whatever the query and however many
\* entities match.
\* ------------------------------------------------------------------------
C14_OutOfRangeLimitEmpty ==
  (ret.kind = "return" /\ (IsCall("search") \/ IsCall("autocomplete"))
   /\ MergedOptions.limit <= 0)
    => /\ IsCall("search") => ret.value = EmptyResult
       /\ IsCall("autocomplete") => ret.value = <<>>

\* ------------------------------------------------------------------------
\* Vocabulary of the properties of autocomplete
\* ------------------------------------------------------------------------
\* the query as autocomplete compares it
AutoQuery == foldCase(trim(args.query), MergedOptions.caseSensitive)

\* 1 for a match on the primary name, 2 for a match on the secondary name
\* only, 0 for no match
PriorityOf(e) ==
  IF /\ MergedOptions.includeEnglish
     /\ startsWith(foldCase(e.name, MergedOptions.caseSensitive), AutoQuery)
  THEN 1
  ELSE IF MergedOptions.includeBengali /\ startsWith(e.bnName, AutoQuery)
       THEN 2
       ELSE 0

\* the place of an entity in the priority-then-catalog ordering
Rank(type, e) ==
  PriorityOf(e) * 100 + CategoryIndex(type) * 10
  + IndexIn(catalog[CategoryKey(type)], e)

Candidates ==
  UNION {{<<type, catalog[CategoryKey(type)][i]>> :
            i \in {k \in DOMAIN catalog[CategoryKey(type)] :
                     PriorityOf(catalog[CategoryKey(type)][k]) > 0}} :
         type \in {t \in Categories : typesInclude(MergedOptions.types, t)}}

Returned == {<<ret.value[i].type, ret.value[i].item>> : i \in DOMAIN ret.value}

\* ------------------------------------------------------------------------
\* C15: autocomplete's result is ordered by priority, then category
\* (division, district, upazila), then catalog position: no entity matched
\* on its secondary name only precedes one matched on its primary name;
\* also when the limit has cut the result.
\* ------------------------------------------------------------------------
C15_PriorityThenCatalogOrder ==
  (IsCall("autocomplete") /\ ret.kind = "return")
    => \A i \in DOMAIN ret.value : \A j \in DOMAIN ret.value :
         LET a == ret.value[i]
             b == ret.value[j]
         IN  /\ PriorityOf(a.item) \in {1, 2}
             /\ i < j => /\ PriorityOf(a.item) <= PriorityOf(b.item)
                         /\ Rank(a.type, a.item) < Rank(b.type, b.item)

\* a division matched on its secondary name only comes behind a district
\* and an upazila matched on their primary names
C15_Witness ==
  /\ IsCall("autocomplete")
  /\ ret.kind = "return"
  /\ Len(ret.value) = 4
  /\ ret.value[2].type = "district"
  /\ ret.value[3].type = "upazila"
  /\ ret.value[4].type = "division"
  /\ PriorityOf(ret.value[3].item) = 1
  /\ PriorityOf(ret.value[4].item) = 2

\* ------------------------------------------------------------------------
\* C16: with caseSensitive = false an entity is returned by autocomplete
\* iff its primary name or else its secondary name starts with the trimmed
\* query, both sides compared ignoring case (query "xx" matches the
\* secondary name "XXXX"); the slug is never consulted.
\* ------------------------------------------------------------------------
C16_PrefixFoldedBothSides ==
  (IsCall("autocomplete") /\ DOMAIN args.options = {}
   /\ ~AllWhitespace(args.query))
    => /\ ret.kind = "return"
       /\ \A type \in Categories :
            \A i \in DOMAIN catalog[CategoryKey(type)] :
              LET e == catalog[CategoryKey(type)][i]
                  q == toLowerCase(trim(args.query))
              IN  <<type, e>> \in Returned
                    <=> \/ startsWith(toLowerCase(e.name), q)
                        \/ startsWith(toLowerCase(e.bnName), q)

\* ------------------------------------------------------------------------
\* C17: for a limit >= 0 autocomplete returns at most limit entries in
\* total, and they are the first limit entries of the priority-then-catalog
\* ordering of all the matching entities.
\* ------------------------------------------------------------------------
C17_GlobalCap ==
  (IsCall("autocomplete") /\ ret.kind = "return"
   /\ ~AllWhitespace(args.query) /\ MergedOptions.limit >= 0)
    => /\ Len(ret.value) = Min2(MergedOptions.limit, Cardinality(Candidates))
       /\ Cardinality(Returned) = Len(ret.value)
       /\ Returned \subseteq Candidates
       /\ \A c \in Candidates \ Returned : \A r \in Returned :
            Rank(r[1], r[2]) < Rank(c[1], c[2])

\* four matches in three categories cut to two entries
C17_Witness ==
  /\ IsCall("autocomplete")
  /\ ret.kind = "return"
  /\ MergedOptions.limit = 2
  /\ Cardinality(Candidates) = 4
  /\ Cardinality({c[1] : c \in Candidates}) = 3
  /\ Len(ret.value) = 2

\* ------------------------------------------------------------------------
\* Vocabulary of the properties of quickSearch and the presets
\* ------------------------------------------------------------------------
\* the entities of the categories opts.types names
EnabledEntities ==
  UNION {{catalog[CategoryKey(type)][i] : i \in DOMAIN catalog[CategoryKey(type)]} :
         type \in {t \in Categories : typesInclude(MergedOptions.types, t)}}

\* the score of field f of entity e for the call's query
ScoreOf(e, f) ==
  similarityOf(trim(args.query), e[f], MergedOptions.caseSensitive)

Reaches(e) ==
  \E f \in EnabledFields(MergedOptions) :
    Ge(ScoreOf(e, f), MergedOptions.threshold)

\* the best-field score of e is the greatest best-field score there is
HasMaximalBest(e) ==
  \E f0 \in EnabledFields(MergedOptions) :
    \A e2 \in EnabledEntities : \A f \in EnabledFields(MergedOptions) :
      Le(ScoreOf(e2, f), ScoreOf(e, f0))

\* what quickSearch returns whenever some field is scored
QuickSearchBestWhenScored ==
  (IsCall("quickSearch") /\ ~AllWhitespace(args.query)
   /\ EnabledFields(MergedOptions) # {})
    => /\ ret.kind = "return"
       /\ ret.value = Null <=> ~ \E e \in EnabledEntities : Reaches(e)
       /\ ret.value # Null
            => /\ ret.value.item \in EnabledEntities
               /\ HasMaximalBest(ret.value.item)

\* an entity that is not the first of its category, from the last category
QuickSearchBestReached ==
  /\ IsCall("quickSearch")
  /\ ret.kind = "return"
  /\ ret.value # Null
  /\ ret.value.item = upazilasData[2]
  /\ \E e \in EnabledEntities : Reaches(e) /\ ~HasMaximalBest(e)

\* ------------------------------------------------------------------------
\* C18: quickSearch(q, opts) returns none iff no entity of an enabled
\* category reaches the threshold; otherwise it returns an entity whose
\* best-field score is the maximum over all entities of all enabled
\* categories.
\* ------------------------------------------------------------------------
C18_QuickSearchBest ==
  (IsCall("quickSearch") /\ ~AllWhitespace(args.query))
    => /\ ret.kind = "return"
       /\ ret.value = Null <=> ~ \E e \in EnabledEntities : Reaches(e)
       /\ ret.value # Null
            => /\ ret.value.item \in EnabledEntities
               /\ HasMaximalBest(ret.value.item)

\* ------------------------------------------------------------------------
\* C19: fuzzySearch uses a threshold lower than the default one: every
\* entity search(q) matches with default options is matched by
\* fuzzySearch(q) with no options, and fuzzySearch("Dahka") returns the
\* Dhaka division and district.
\* ------------------------------------------------------------------------
ItemsOf(list) == {list[i].item : i \in DOMAIN list}

C19_FuzzyMorePermissive ==
  (IsCall("fuzzySearch") /\ DOMAIN args.options = {})
    => /\ ret.kind = "return"
       /\ Lt(fuzzyThreshold, defaultSearchOptions.threshold)
       /\ \A type \in Categories :
            ItemsOf(search(catalog, args.query, NoOptions)
                      .value[CategoryKey(type)])
              \subseteq ItemsOf(ret.value[CategoryKey(type)])
       /\ args.query = Str_Dahka
            => /\ divisionsData[1] \in ItemsOf(ret.value.divisions)
               /\ districtsData[1] \in ItemsOf(ret.value.districts)

\* the entities fuzzySearch returns are among those search returns, and the
\* example holds
FuzzyStricterThanDefault ==
  (IsCall("fuzzySearch") /\ DOMAIN args.options = {})
    => /\ ret.kind = "return"
       /\ \A type \in Categories :
            ItemsOf(ret.value[CategoryKey(type)])
              \subseteq ItemsOf(search(catalog, args.query, NoOptions)
                                  .value[CategoryKey(type)])
       /\ args.query = Str_Dahka
            => /\ divisionsData[1] \in ItemsOf(ret.value.divisions)
               /\ districtsData[1] \in ItemsOf(ret.value.districts)

\* an entity search matches and fuzzySearch drops
FuzzyDropsDefaultMatch ==
  /\ IsCall("fuzzySearch")
  /\ DOMAIN args.options = {}
  /\ ret.kind = "return"
  /\ \E type \in Categories :
       ItemsOf(search(catalog, args.query, NoOptions).value[CategoryKey(type)])
         \ ItemsOf(ret.value[CategoryKey(type)]) # {}

\* ------------------------------------------------------------------------
\* C20: for every types list a category it does not name has an empty
\* list, a category it names has the list it has when all categories are
\* searched with otherwise identical options, and a list of unknown names
\* only yields three empty lists without an error.
\* ------------------------------------------------------------------------
AllCategoriesSearch ==
  search(catalog, args.query,
         spread(args.options, [types |-> CategoryOrder]))

C20_TypesOnlyRemove ==
  IsCall("search")
    => /\ ret.kind = "return"
         => \A type \in Categories :
              IF typesInclude(MergedOptions.types, type)
              THEN /\ AllCategoriesSearch.kind = "return"
                   /\ ret.value[CategoryKey(type)]
                        = AllCategoriesSearch.value[CategoryKey(type)]
              ELSE ret.value[CategoryKey(type)] = <<>>
       /\ (\A type \in Categories : ~typesInclude(MergedOptions.types, type))
            => ret = Return(EmptyResult)

\* one category named: its list is kept, the others' matches are dropped
C20_Witness ==
  /\ IsCall("search")
  /\ ret.kind = "return"
  /\ MergedOptions.types = <<"district">>
  /\ ret.value.districts # <<>>
  /\ ret.value.divisions = <<>>
  /\ AllCategoriesSearch.value.divisions # <<>>
  /\ AllCategoriesSearch.value.upazilas # <<>>

\* ------------------------------------------------------------------------
\* C21: every preset is search with overridden options, and the overrides
\* win over what the caller supplies: the category presets return the
\* category's list of search with types set to that category, searchEnglish
\* and searchBengali are search with only the primary or only the secondary
\* name enabled and return only results matched on that field, fuzzySearch
\* is search with threshold 0.4.
\* ------------------------------------------------------------------------
\* the caller's options with the given keys forced
Forced(over) ==
  [k \in DOMAIN args.options \cup DOMAIN over |->
     IF k \in DOMAIN over THEN over[k] ELSE args.options[k]]

\* the category list of a search, or the search's exception
ListOf(result, key) ==
  IF result.kind = "return" THEN Return(result.value[key]) ELSE result

AllMatchedOn(result, field) ==
  /\ result.kind = "return"
  /\ \A list \in CategoryLists(result.value) : \A e \in Entries(list) :
       e.matchedField = field

C21_PresetsAreSearch ==
  /\ IsCall("searchDivisions")
       => ret = ListOf(search(catalog, args.query,
                              Forced([types |-> <<"division">>])), "divisions")
  /\ IsCall("searchDistricts")
       => ret = ListOf(search(catalog, args.query,
                              Forced([types |-> <<"district">>])), "districts")
  /\ IsCall("searchUpazilas")
       => ret = ListOf(search(catalog, args.query,
                              Forced([types |-> <<"upazila">>])), "upazilas")
  /\ IsCall("searchEnglish")
       => /\ ret = search(catalog, args.query,
                          Forced([includeEnglish |-> TRUE,
                                  includeBengali |-> FALSE,
                                  includeSlug |-> FALSE]))
          /\ AllMatchedOn(ret, "name")
  /\ IsCall("searchBengali")
       => /\ ret = search(catalog, args.query,
                          Forced([includeEnglish |-> FALSE,
                                  includeBengali |-> TRUE,
                                  includeSlug |-> FALSE]))
          /\ AllMatchedOn(ret, "bnName")
  /\ IsCall("fuzzySearch")
       => ret = search(catalog, args.query, Forced([threshold |-> <<4, 10>>]))

\* the caller switches the primary name off and the slug on; searchEnglish
\* still matches an entity on its primary name
C21_Witness ==
  /\ IsCall("searchEnglish")
  /\ "includeEnglish" \in DOMAIN args.options
  /\ ~args.options.includeEnglish
  /\ args.options.includeSlug
  /\ args.query = Str_bogura
  /\ ret.kind = "return"
  /\ Len(ret.value.districts) >= 1
  /\ ret.value.districts[1].matchedField = "name"

\* ------------------------------------------------------------------------
\* C22: the calls share no mutable state: after any sequence of calls the
\* catalog (content and order of its three collections) and the default
\* options are what they were at the start, and every call's result is the
\* one the same call with the same arguments gives on the initial catalog.
\* ------------------------------------------------------------------------
\* the outcome of the current call made on the catalog cat
OutcomeOn(cat) ==
  CASE IsCall("search") -> search(cat, args.query, args.options)
    [] IsCall("quickSearch") -> quickSearch(cat, args.query, args.options)
    [] IsCall("autocomplete") -> autocomplete(cat, args.query, args.options)
    [] IsCall("searchDivisions") ->
         searchDivisions(cat, args.query, args.options)
    [] IsCall("searchDistricts") ->
         searchDistricts(cat, args.query, args.options)
    [] IsCall("searchUpazilas") ->
         searchUpazilas(cat, args.query, args.options)
    [] IsCall("searchBengali") -> searchBengali(cat, args.query, args.options)
    [] IsCall("searchEnglish") -> searchEnglish(cat, args.query, args.options)
    [] IsCall("fuzzySearch") -> fuzzySearch(cat, args.query, args.options)
    [] OTHER -> ret

HighSurrogates == {"U+D83D"}
LowSurrogates == {"U+DE00"}

\* the code points of a string of UTF-16 units, each as the units storing it
RECURSIVE CodePoints(_)
CodePoints(s) ==
  IF s = <<>> THEN <<>>
  ELSE IF Len(s) >= 2 /\ s[1] \in HighSurrogates /\ s[2] \in LowSurrogates
       THEN << <<s[1], s[2]>> >> \o CodePoints(SubSeq(s, 3, Len(s)))
       ELSE << <<s[1]>> >> \o CodePoints(Tail(s))

C23_CountsCodePoints ==
  /\ IsCall("levenshteinDistance")
       => ret.value = EditDistance(CodePoints(args.str1), CodePoints(args.str2))
  /\ (IsCall("calculateSimilarity") /\ ret.rule = "levenshtein")
       => LET q == CodePoints(foldCase(args.query, args.caseSensitive))
              t == CodePoints(foldCase(args.target, args.caseSensitive))
          IN  Eq(ret.value, OneMinus(EditDistance(q, t), Max2(Len(q), Len(t))))

\* U+1F600 against "a": two units against one, distance 2
SurrogatePairCountsTwice ==
  /\ IsCall("levenshteinDistance")
  /\ args.str1 = Str_Grin
  /\ args.str2 = <<"a">>
  /\ Len(CodePoints(args.str1)) = 1
  /\ ret.value = 2

\* U+1F600 "b" against "ab": 1 - 2/3 where code points give 1 - 1/2
SurrogatePairInDenominator ==
  /\ IsCall("calculateSimilarity")
  /\ args.query = Str_GrinB
  /\ args.target = <<"a", "b">>
  /\ Eq(ret.value, <<1, 3>>)

\* ------------------------------------------------------------------------
\* C24: per searched category and for a limit >= 0, search returns exactly
\* the top matches: min(limit, number of entities of the category whose best
\* score >= threshold) entries, each a distinct entity of that category with
\* its best score, and no matching entity left out scores strictly higher
\* than an entity returned.
\* ------------------------------------------------------------------------
\* s is the best enabled-field score of entity e
IsBestScore(e, s) ==
  /\ \E f \in EnabledFields(MergedOptions) : Eq(ScoreOf(e, f), s)
  /\ \A f \in EnabledFields(MergedOptions) : Le(ScoreOf(e, f), s)

TopMatches ==
  \A type \in {t \in Categories : typesInclude(MergedOptions.types, t)} :
    LET list == ret.value[CategoryKey(type)]
        items == catalog[CategoryKey(type)]
        matching == Matching(items, trim(args.query), MergedOptions)
        taken == {k \in DOMAIN items :
                    \E i \in DOMAIN list : list[i].item = items[k]}
    IN  /\ Len(list) = Min2(MergedOptions.limit, Cardinality(matching))
        /\ Cardinality(taken) = Len(list)
        /\ taken \subseteq matching
        /\ \A i \in DOMAIN list :
             /\ IsBestScore(list[i].item, list[i].score)
             /\ \A k \in matching \ taken :
                  \A f \in EnabledFields(MergedOptions) :
                    Le(ScoreOf(items[k], f), list[i].score)

C24_TopMatches ==
  (IsCall("search") /\ ~AllWhitespace(args.query)
   /\ MergedOptions.limit >= 0)
    => ret.kind = "return" /\ TopMatches

\* what search returns whenever it returns
TopMatchesWhenReturned ==
  (IsCall("search") /\ ret.kind = "return" /\ ~AllWhitespace(args.query)
   /\ MergedOptions.limit >= 0)
    => TopMatches

\* three districts match and the limit keeps one: the second of the catalog
TopMatchesReached ==
  /\ IsCall("search")
  /\ ret.kind = "return"
  /\ MergedOptions.limit = 1
  /\ Cardinality(Matching(catalog.districts, trim(args.query),
                          MergedOptions)) = 3
  /\ Len(ret.value.districts) = 1
  /\ ret.value.districts[1].item = catalog.districts[2]
  /\ \E f \in EnabledFields(MergedOptions) :
       Lt(ScoreOf(catalog.districts[1], f), ret.value.districts[1].score)

\* ------------------------------------------------------------------------
\* C25: of the entities that tie on the top score quickSearch returns the
\* one of the earliest category in the order division, district, upazila,
\* and within a category the earliest of the catalog, whatever the order of
\* the types option and whatever limit the caller passes;
\* quickSearch("sylhet") returns the Sylhet division, not the district.
\* ------------------------------------------------------------------------
\* the entities of the searched categories, each with its place in the
\* fixed order
Placed ==
  UNION {{[type |-> type, index |-> i, item |-> catalog[CategoryKey(type)][i]] :
            i \in DOMAIN catalog[CategoryKey(type)]} :
         type \in {t \in Categories : typesInclude(MergedOptions.types, t)}}

Before(a, b) ==
  \/ CategoryIndex(a.type) < CategoryIndex(b.type)
  \/ a.type = b.type /\ a.index < b.index

C25_EarliestCategoryOnTie ==
  (IsCall("quickSearch") /\ ret.kind = "return" /\ ret.value # Null)
    => /\ \E p \in Placed :
            /\ p.item = ret.value.item
            /\ \E f0 \in EnabledFields(MergedOptions) :
                 /\ \A f \in EnabledFields(MergedOptions) :
                      Le(ScoreOf(p.item, f), ScoreOf(p.item, f0))
                 /\ \A p2 \in Placed : \A f \in EnabledFields(MergedOptions) :
                      IF Before(p2, p)
                      THEN Lt(ScoreOf(p2.item, f), ScoreOf(p.item, f0))
                      ELSE Le(ScoreOf(p2.item, f), ScoreOf(p.item, f0))
       /\ (args.query = Str_sylhet /\ DOMAIN args.options \subseteq {"limit"})
            => ret.value.item = divisionsData[2]

\* the example with a caller's limit: division and district tie at 1.0
C25_Witness ==
  /\ IsCall("quickSearch")
  /\ args.query = Str_sylhet
  /\ args.options = [limit |-> -1]
  /\ ret.kind = "return"
  /\ ret.value # Null
  /\ ret.value.item = divisionsData[2]
  /\ IsBestScore(divisionsData[2], One)
  /\ IsBestScore(districtsData[3], One)

\* a tie between an upazila and a division when types names the upazilas
\* first
TieWithTypesReordered ==
  /\ IsCall("quickSearch")
  /\ MergedOptions.types = <<"upazila", "division">>
  /\ ret.kind = "return"
  /\ ret.value # Null
  /\ ret.value.item = divisionsData[1]
  /\ \E s \in {<<0, 1>>, <<1, 1>>, <<9, 10>>, <<1, 5>>} :
       IsBestScore(divisionsData[1], s) /\ IsBestScore(upazilasData[1], s)

\* ------------------------------------------------------------------------
\* C26: white space around the query is insignificant: for a query q with
\* a non-whitespace unit and any options, search, quickSearch and
\* autocomplete give for q what they give for q without its leading and
\* trailing white space.
\* ------------------------------------------------------------------------
\* q from its first to its last unit that is no white space
Core(q) ==
  LET solid == {i \in DOMAIN q : q[i] \notin WhiteSpace}
      first == CHOOSE i \in solid : \A j \in solid : i <= j
      last == CHOOSE i \in solid : \A j \in solid : j <= i
  IN  SubSeq(q, first, last)

C26_SurroundingWhitespaceIgnored ==
  ((IsCall("search") \/ IsCall("quickSearch") \/ IsCall("autocomplete"))
   /\ ~AllWhitespace(args.query))
    => /\ IsCall("search")
            => ret = search(catalog, Core(args.query), args.options)
       /\ IsCall("quickSearch")
            => ret = quickSearch(catalog, Core(args.query), args.options)
       /\ IsCall("autocomplete")
            => ret = autocomplete(catalog, Core(args.query), args.options)

\* " Dha " finds what "Dha" finds
C26_Witness ==
  /\ IsCall("autocomplete")
  /\ args.query = <<" ", "D", "h", "a", " ">>
  /\ Core(args.query) = Str_Dha
  /\ ret.kind = "return"
  /\ Len(ret.value) >= 3
  /\ ret.value[1].item = divisionsData[1]

====
